---- MODULE Spec2Model ----
(***************************************************************************)
(* A model of the grep -E matcher of src/main.rs: the pattern parser       *)
(* (PatternParser), the Thompson-style NFA builder (NfaBuilder), the NFA   *)
(* simulator (NfaRunner) and the driver (Grep::is_match, main).            *)
(*                                                                         *)
(* Characters are one-character strings; a Rust String or &[char] is a     *)
(* sequence of them.  Rust indices are kept 0-based as in the source, so   *)
(* input[i] of the source is input[i + 1] here.  A Rust panic (a failed    *)
(* expect/unwrap, an index or slice out of range) is the value Panic.      *)
(***************************************************************************)
EXTENDS Integers, Sequences, FiniteSets, TLC

\* ------------------------------------------------------------------------
\* Bounds of the model
\* ------------------------------------------------------------------------

\* longest input line drawn by Init
MaxInputLen == 3

\* longest all-literal pattern drawn by Init
MaxLitLen == 3

\* longest word run through a starred NFA in SpecStar
MaxWordLen == 3

\* longest character list of a class [s] or [^s] drawn by Init
MaxClassLen == 2

\* longest list of state ids NfaRunner::closure is started on in SpecClosure
MaxStartLen == 1

\* longest input NfaRunner::run is given in SpecClosure
MaxRunLen == 2

\* ------------------------------------------------------------------------
\* Helpers on sequences
\* ------------------------------------------------------------------------

Range(s) == {s[i] : i \in 1..Len(s)}

\* all sequences over S of length 0..n
SeqsUpTo(S, n) == UNION {[1..k -> S] : k \in 0..n}

\* the concatenation of ss[lo], ..., ss[hi], in order (split in halves, so
\* that the recursion is only logarithmically deep)
RECURSIVE FlattenRange(_, _, _)
FlattenRange(ss, lo, hi) ==
  IF lo > hi THEN <<>>
  ELSE IF lo = hi THEN ss[lo]
  ELSE LET split[mid \in {(lo + hi) \div 2}] ==
             FlattenRange(ss, lo, mid) \o FlattenRange(ss, mid + 1, hi)
       IN  split[(lo + hi) \div 2]

\* the concatenation of the sequences of ss, in order
Flatten(ss) == FlattenRange(ss, 1, Len(ss))

\* const SPECIAL_MARKER: char = '\x01'
SPECIAL_MARKER == "SOH"

\* ------------------------------------------------------------------------
\* enum Pattern
\* ------------------------------------------------------------------------

Start == <<"Start">>
End == <<"End">>
Literal(c) == <<"Literal", c>>
AnyDigit == <<"AnyDigit">>
AnyChar == <<"AnyChar">>
AnyCharIn(chars) == <<"AnyCharIn", chars>>
AnyCharNotIn(chars) == <<"AnyCharNotIn", chars>>
OneOrMore(p) == <<"OneOrMore", p>>
KleeneStar(p) == <<"KleeneStar", p>>
Sequence(ps) == <<"Sequence", ps>>
Or(l, r) == <<"Or", l, r>>

\* the outcome of a Rust panic
Panic == <<"Panic">>

\* the character lists of the escapes \w, \s and \d of next_pattern
WordChars ==
  << "a","b","c","d","e","f","g","h","i","j","k","l","m",
     "n","o","p","q","r","s","t","u","v","w","x","y","z",
     "A","B","C","D","E","F","G","H","I","J","K","L","M",
     "N","O","P","Q","R","S","T","U","V","W","X","Y","Z",
     "0","1","2","3","4","5","6","7","8","9","_" >>

SpaceChars == << " ", "\t", "\r", "\n" >>

DigitChars == << "0","1","2","3","4","5","6","7","8","9" >>

\* ------------------------------------------------------------------------
\* struct PatternParser { input, index, patterns }
\* ------------------------------------------------------------------------

\* PatternParser::new
PatternParser_new(input) == [input |-> input, index |-> 0, patterns |-> <<>>]

\* self.input[i] with a 0-based i (the caller checks the range)
CharAt(input, i) == input[i + 1]

\* &self.input[a..b] with 0-based a, b (the caller checks a <= b <= len)
Slice(input, a, b) == SubSeq(input, a + 1, b)

\* PatternParser::next_index: the first i >= index with input[i] = c, or -1
\* for None
next_index(input, index, c) ==
  LET hits == {i \in index..(Len(input) - 1) : CharAt(input, i) = c}
  IN  IF hits = {} THEN -1
      ELSE CHOOSE i \in hits : \A j \in hits : i <= j

\* the `loop` of the '[' arm of next_pattern: collects characters up to the
\* next ']'; running off the end of the pattern is an index panic
RECURSIVE class_loop(_, _, _)
class_loop(input, index, chars) ==
  IF index >= Len(input) THEN [panic |-> TRUE, index |-> index, chars |-> chars]
  ELSE IF CharAt(input, index) = "]"
       THEN [panic |-> FALSE, index |-> index, chars |-> chars]
       ELSE class_loop(input, index + 1, Append(chars, CharAt(input, index)))

\* the inner match of the '\\' arm of next_pattern
escape_pattern(c) ==
  CASE c = "d" -> AnyDigit
    [] c = "w" -> AnyCharIn(WordChars)
    [] c = "s" -> AnyCharIn(SpaceChars)
    [] c = "D" -> AnyCharNotIn(DigitChars)
    [] c = "W" -> AnyCharNotIn(WordChars)
    [] c = "S" -> AnyCharNotIn(SpaceChars)
    [] OTHER -> Literal(c)

\* results of next_pattern: None, Some(pat) or a panic, with the parser
\* fields as next_pattern leaves them
PNone(ps) == [kind |-> "None", pat |-> Panic, index |-> ps.index, patterns |-> ps.patterns]
PSome(pat, index, patterns) ==
  [kind |-> "Some", pat |-> pat, index |-> index, patterns |-> patterns]
PPanic(ps) == [kind |-> "Panic", pat |-> Panic, index |-> ps.index, patterns |-> ps.patterns]

\* Vec::pop on the running sibling list
PopLast(patterns) == SubSeq(patterns, 1, Len(patterns) - 1)
Last(patterns) == patterns[Len(patterns)]

RECURSIVE next_pattern(_)
RECURSIVE internal_parse(_)

\* the '(' arm of next_pattern
group_pattern(ps) ==
  LET input == ps.input
      index == ps.index + 1
      next_close == next_index(input, index, ")")
      pipe_index == next_index(input, index, "|")
  IN  IF next_close = -1 THEN PPanic(ps)
      ELSE IF pipe_index # -1
           THEN LET left == internal_parse(PatternParser_new(Slice(input, index, pipe_index)))
                IN  IF left = Panic \/ pipe_index + 1 > next_close THEN PPanic(ps)
                    ELSE LET right == internal_parse(
                                PatternParser_new(Slice(input, pipe_index + 1, next_close)))
                         IN  IF right = Panic THEN PPanic(ps)
                             ELSE PSome(Or(left, right), next_close + 1, ps.patterns)
           ELSE LET inner == internal_parse(PatternParser_new(Slice(input, index, next_close)))
                IN  IF inner = Panic THEN PPanic(ps)
                    ELSE PSome(inner, next_close + 1, ps.patterns)

\* the '|' arm of next_pattern: the right operand is read by a fresh parser
\* over the rest of the input, and self.index is moved back by one
pipe_pattern(ps) ==
  IF ps.patterns = <<>> THEN PPanic(ps)
  ELSE LET left == Last(ps.patterns)
           index == ps.index + 1
           right == next_pattern(PatternParser_new(Slice(ps.input, index, Len(ps.input))))
       IN  IF right.kind # "Some" THEN PPanic(ps)
           ELSE PSome(Or(left, right.pat), (index - 1) + 1, PopLast(ps.patterns))

\* the '*', '+' and '?' arms of next_pattern
quantifier_pattern(ps, current) ==
  IF ps.patterns = <<>> THEN PPanic(ps)
  ELSE LET left == Last(ps.patterns)
           pat == CASE current = "*" -> KleeneStar(left)
                    [] current = "+" -> OneOrMore(left)
                    [] current = "?" -> Or(Sequence(<<>>), OneOrMore(left))
       IN  PSome(pat, ps.index + 1, PopLast(ps.patterns))

\* the '[' arm of next_pattern
class_pattern(ps) ==
  LET input == ps.input
      index == ps.index + 1
  IN  IF index >= Len(input) THEN PPanic(ps)
      ELSE LET is_not == CharAt(input, index) = "^"
               body == class_loop(input, IF is_not THEN index + 1 ELSE index, <<>>)
           IN  IF body.panic THEN PPanic(ps)
               ELSE PSome(IF is_not THEN AnyCharNotIn(body.chars) ELSE AnyCharIn(body.chars),
                          body.index + 1, ps.patterns)

\* PatternParser::next_pattern
next_pattern(ps) ==
  IF ps.index >= Len(ps.input) THEN PNone(ps)
  ELSE LET current == CharAt(ps.input, ps.index)
       IN  CASE current = "\\" ->
                  IF ps.index + 1 >= Len(ps.input) THEN PPanic(ps)
                  ELSE PSome(escape_pattern(CharAt(ps.input, ps.index + 1)),
                             ps.index + 2, ps.patterns)
             [] current = "." -> PSome(AnyChar, ps.index + 1, ps.patterns)
             [] current = "[" -> class_pattern(ps)
             [] current = "(" -> group_pattern(ps)
             [] current = "|" -> pipe_pattern(ps)
             [] current \in {"*", "+", "?"} -> quantifier_pattern(ps, current)
             [] current = "^" -> PSome(Start, ps.index + 1, ps.patterns)
             [] current = "$" -> PSome(End, ps.index + 1, ps.patterns)
             [] OTHER -> PSome(Literal(current), ps.index + 1, ps.patterns)

\* PatternParser::internal_parse: the while-let loop pushes every pattern
\* next_pattern returns, then the sibling list is folded into one Pattern
internal_parse(ps) ==
  LET r == next_pattern(ps)
  IN  CASE r.kind = "Panic" -> Panic
        [] r.kind = "Some" ->
             internal_parse([input |-> ps.input, index |-> r.index,
                             patterns |-> Append(r.patterns, r.pat)])
        [] OTHER ->
             IF Len(ps.patterns) = 0 THEN AnyChar
             ELSE IF Len(ps.patterns) = 1 THEN ps.patterns[1]
             ELSE Sequence(ps.patterns)

\* PatternParser::parse
parse(chars) == internal_parse(PatternParser_new(chars))

\* ------------------------------------------------------------------------
\* struct Nfa { start, end, states }, struct NfaState, enum StateInput
\* ------------------------------------------------------------------------

\* StateInput::Epsilon; the other labels are written as the Pattern atoms
\* of the same name (Literal(c), AnyDigit, AnyChar, AnyCharIn, AnyCharNotIn)
Epsilon == <<"Epsilon">>

\* an Nfa: states maps a StateId to the transition list of its NfaState, a
\* sequence of <<StateInput, StateId>>; panic records a failed unwrap or a
\* "State already exists" panic while it was built
Nfa(start, end, states, panic) ==
  [start |-> start, end |-> end, states |-> states, panic |-> panic]

\* what a builder method returns together with the counter NfaBuilder.id_
Built(nfa, id_) == [nfa |-> nfa, id_ |-> id_]

\* HashMap::extend: the entries of b replace those of a on equal keys
Extend(a, b) ==
  [k \in (DOMAIN a) \cup (DOMAIN b) |-> IF k \in DOMAIN b THEN b[k] ELSE a[k]]

\* states.get_mut(id).unwrap().transition.push(tr) for every id of ids
RECURSIVE PushAll(_, _, _)
PushAll(states, ids, tr) ==
  IF ids = <<>> THEN states
  ELSE IF Head(ids) \notin DOMAIN states THEN PushAll(states, Tail(ids), tr)
  ELSE PushAll([states EXCEPT ![Head(ids)] = Append(@, tr)], Tail(ids), tr)

\* whether one of those unwraps fails
MissingAny(states, ids) == \E i \in 1..Len(ids) : ids[i] \notin DOMAIN states

\* InsertNfaState::insert_nfa_state: panics when the id is already a key
insert_nfa_state(states, id, transition) ==
  [states |-> Extend(states, [k \in {id} |-> transition]),
   panic |-> id \in DOMAIN states]

\* atom with a next_id that hands out ids without advancing the counter: the
\* next states built get the same two ids
atom_stale_counter(label, id_) ==
  LET end == id_ + 1
      start == id_ + 2
  IN  Built(Nfa(start, <<end>>,
                [k \in {start, end} |-> IF k = start THEN << <<label, end>> >> ELSE <<>>],
                FALSE),
            id_)

\* NfaBuilder::literal, any_digit, any_char, any_char_in, any_char_not_in:
\* the end state takes the first fresh id, the start state the second
atom(label, id_) ==
  LET end == id_ + 1
      start == id_ + 2
  IN  Built(Nfa(start, <<end>>,
                [k \in {start, end} |-> IF k = start THEN << <<label, end>> >> ELSE <<>>],
                FALSE),
            id_ + 2)

\* NfaBuilder::or
or(left, right, id_) ==
  LET end == id_ + 1
      start == id_ + 2
      lstates == PushAll(left.states, left.end, <<Epsilon, end>>)
      rstates == PushAll(right.states, right.end, <<Epsilon, end>>)
      merged == Extend(lstates, rstates)
      withStart == insert_nfa_state(merged, start,
                     << <<Epsilon, left.start>>, <<Epsilon, right.start>> >>)
      withEnd == insert_nfa_state(withStart.states, end, <<>>)
  IN  Built(Nfa(start, <<end>>, withEnd.states,
                \/ left.panic \/ right.panic
                \/ MissingAny(left.states, left.end)
                \/ MissingAny(right.states, right.end)
                \/ withStart.panic \/ withEnd.panic),
            id_ + 2)

\* the second loop of kleene_star: the start state gets an Epsilon edge to
\* every end state
RECURSIVE PushEach(_, _, _)
PushEach(states, from, targets) ==
  IF targets = <<>> THEN states
  ELSE PushEach([states EXCEPT ![from] = Append(@, <<Epsilon, Head(targets)>>)],
                from, Tail(targets))

\* NfaBuilder::kleene_star
kleene_star(nfa) ==
  LET start == nfa.start
      looped == PushAll(nfa.states, nfa.end, <<Epsilon, start>>)
  IN  IF start \notin DOMAIN looped
      THEN Nfa(start, nfa.end, looped, TRUE)
      ELSE Nfa(start, nfa.end, PushEach(looped, start, nfa.end),
               nfa.panic \/ MissingAny(nfa.states, nfa.end))

\* NfaBuilder::one_or_more
one_or_more(nfa) ==
  Nfa(nfa.start, nfa.end, PushAll(nfa.states, nfa.end, <<Epsilon, nfa.start>>),
      nfa.panic \/ MissingAny(nfa.states, nfa.end))

\* the empty-sequence branch of NfaBuilder::sequence
empty_sequence(id_) ==
  LET end == id_ + 1
      start == id_ + 2
      withStart == insert_nfa_state(<<>>, start, << <<Epsilon, end>> >>)
      withEnd == insert_nfa_state(withStart.states, end, <<>>)
  IN  Built(Nfa(start, <<end>>, withEnd.states, withStart.panic \/ withEnd.panic),
            id_ + 2)

RECURSIVE of(_, _)
RECURSIVE sequence_loop(_, _, _, _, _, _)

\* the for loop of NfaBuilder::sequence; start = 0 stands for None
sequence_loop(patterns, id_, states, prev_end, start, panic) ==
  IF patterns = <<>> THEN Built(Nfa(start, prev_end, states, panic), id_)
  ELSE LET next == of(Head(patterns), id_)
           next_nfa == next.nfa
           extended == Extend(states, next_nfa.states)
       IN  sequence_loop(Tail(patterns), next.id_,
                         PushAll(extended, prev_end, <<Epsilon, next_nfa.start>>),
                         next_nfa.end,
                         IF start = 0 THEN next_nfa.start ELSE start,
                         panic \/ next_nfa.panic \/ MissingAny(extended, prev_end))

\* NfaBuilder::sequence
sequence(patterns, id_) ==
  IF Len(patterns) = 0 THEN empty_sequence(id_)
  ELSE sequence_loop(patterns, id_, <<>>, <<>>, 0, FALSE)

\* NfaBuilder::of
of(pattern, id_) ==
  LET tag == pattern[1]
  IN  CASE tag = "Literal" -> atom(Literal(pattern[2]), id_)
        [] tag = "AnyDigit" -> atom(AnyDigit, id_)
        [] tag = "AnyChar" -> atom(AnyChar, id_)
        [] tag = "AnyCharIn" -> atom(AnyCharIn(pattern[2]), id_)
        [] tag = "AnyCharNotIn" -> atom(AnyCharNotIn(pattern[2]), id_)
        [] tag = "OneOrMore" ->
             LET inner == of(pattern[2], id_)
             IN  Built(one_or_more(inner.nfa), inner.id_)
        [] tag = "KleeneStar" ->
             LET inner == of(pattern[2], id_)
             IN  Built(kleene_star(inner.nfa), inner.id_)
        [] tag = "Sequence" -> sequence(pattern[2], id_)
        [] tag = "Or" ->
             LET left == of(pattern[2], id_)
                 right == of(pattern[3], left.id_)
             IN  or(left.nfa, right.nfa, right.id_)
        [] tag = "Start" -> atom(Literal(SPECIAL_MARKER), id_)
        [] tag = "End" -> atom(Literal(SPECIAL_MARKER), id_)

\* NfaBuilder::new followed by of: the counter starts at 0
NfaBuilder_of(pattern) == of(pattern, 0).nfa

\* ------------------------------------------------------------------------
\* struct NfaRunner { nfa, current_states }
\* ------------------------------------------------------------------------

\* the match on StateInput in NfaRunner::next: whether a transition with
\* this label is taken on character c (Epsilon is ignored there)
label_matches(label, c) ==
  LET tag == label[1]
  IN  CASE tag = "Literal" -> label[2] = c
        [] tag = "AnyDigit" -> c \in Range(DigitChars)
        [] tag = "AnyChar" -> TRUE
        [] tag = "AnyCharIn" -> c \in Range(label[2])
        [] tag = "AnyCharNotIn" -> c \notin Range(label[2])
        [] OTHER -> FALSE

\* the targets one state pushes in NfaRunner::next, in transition order
RECURSIVE targets_on(_, _)
targets_on(transition, c) ==
  IF transition = <<>> THEN <<>>
  ELSE (IF label_matches(Head(transition)[1], c) THEN <<Head(transition)[2]>> ELSE <<>>)
       \o targets_on(Tail(transition), c)

\* the Epsilon targets one state pushes in NfaRunner::closure
RECURSIVE epsilon_targets(_)
epsilon_targets(transition) ==
  IF transition = <<>> THEN <<>>
  ELSE (IF Head(transition)[1] = Epsilon THEN <<Head(transition)[2]>> ELSE <<>>)
       \o epsilon_targets(Tail(transition))

\* NfaRunner::diff: the items of a that are not in b, in order
diff(a, b) ==
  LET contained == Range(b)
  IN  SelectSeq(a, LAMBDA a_item : a_item \notin contained)

\* the list an iteration of the closure loop that does not extend `current`
\* would leave: the states found are never recorded
extend_current_dropped(current, epsilon_transitons) == current

\* current.extend(epsilon_transitons) of NfaRunner::closure
extend_current(current, epsilon_transitons) == current \o epsilon_transitons

\* one iteration of the while loop of NfaRunner::closure: the Epsilon targets
\* of new_states are collected, those not yet in current are the next
\* new_states, and all of them are appended to current
closure_step(states, new_states, current) ==
  LET epsilon_transitons ==
        Flatten([i \in 1..Len(new_states) |-> epsilon_targets(states[new_states[i]])])
  IN  [new_states |-> diff(epsilon_transitons, current),
       current |-> extend_current(current, epsilon_transitons)]

\* the while loop of NfaRunner::closure
RECURSIVE closure_loop(_, _, _)
closure_loop(states, new_states, current) ==
  IF Len(new_states) = 0 THEN current
  ELSE LET step == closure_step(states, new_states, current)
       IN  closure_loop(states, step.new_states, step.current)

\* NfaRunner::closure
closure(states, current) == closure_loop(states, current, current)

\* NfaRunner::new: the initial current_states
NfaRunner_new(nfa) == closure(nfa.states, <<nfa.start>>)

\* NfaRunner::next before its call of closure: the targets pushed for
\* character c, in order
next_targets(nfa, current, c) ==
  Flatten([i \in 1..Len(current) |-> targets_on(nfa.states[current[i]], c)])

\* NfaRunner::next: the new current_states after character c
NfaRunner_next(nfa, current, c) ==
  closure(nfa.states, next_targets(nfa, current, c))

\* NfaRunner::is_match
NfaRunner_is_match(nfa, current) ==
  \E i \in 1..Len(current) : current[i] \in Range(nfa.end)

\* NfaRunner::run
RECURSIVE run_from(_, _, _)
run_from(nfa, current, input) ==
  IF input = <<>> THEN NfaRunner_is_match(nfa, current)
  ELSE run_from(nfa, NfaRunner_next(nfa, current, Head(input)), Tail(input))

NfaRunner_run(nfa, input) == run_from(nfa, NfaRunner_new(nfa), input)

\* ------------------------------------------------------------------------
\* struct Grep { pattern, input }
\* ------------------------------------------------------------------------

\* modified_input of Grep::is_match
modified_input(input) == <<SPECIAL_MARKER>> \o input \o <<SPECIAL_MARKER>>

\* modified_pattern without the trailing KleeneStar(AnyChar): the match would
\* have to end where the input ends
modified_pattern_no_tail(pattern) ==
  Sequence(<<KleeneStar(AnyChar), pattern>>)

\* modified_pattern of Grep::is_match
modified_pattern(pattern) ==
  Sequence(<<KleeneStar(AnyChar), pattern, KleeneStar(AnyChar)>>)

\* Grep::is_match on an already parsed pattern
match_ast(pattern, input) ==
  NfaRunner_run(NfaBuilder_of(modified_pattern(pattern)), modified_input(input))

\* Grep::is_match; a parse panic is the value Panic
Grep_is_match(pattern, input) ==
  LET p == parse(pattern)
  IN  IF p = Panic THEN Panic ELSE match_ast(p, input)

\* ------------------------------------------------------------------------
\* The patterns and input lines the model draws
\* ------------------------------------------------------------------------

\* ordinary literal characters used in patterns
LitChars == {"a", "b"}

\* characters of an input line (SPECIAL_MARKER is not among them)
InputChars == {"a", "b", "1"}

\* what read_line can return: a line with or without its trailing newline
InputSet ==
  LET lines == SeqsUpTo(InputChars, MaxInputLen)
  IN  lines \cup {l \o <<"\n">> : l \in {x \in lines : Len(x) < MaxInputLen}}

\* non-empty patterns made of ordinary literal characters only
LiteralPatterns == SeqsUpTo(LitChars, MaxLitLen) \ {<<>>}

\* [s] and [^s] for every character list s over LitChars
ClassSets == SeqsUpTo(LitChars, MaxClassLen)
ClassPatterns ==
  {<<"[">> \o s \o <<"]">> : s \in ClassSets} \cup
  {<<"[", "^">> \o s \o <<"]">> : s \in ClassSets}

\* single-atom patterns: literal, `.`, `\d`, class, negated class
AtomPatterns ==
  {<<"a">>, <<"b">>, <<".">>, <<"\\", "d">>} \cup ClassPatterns

Quantifiers == {"*", "+", "?"}

QuantifiedPatterns == {p \o <<q>> : p \in AtomPatterns, q \in Quantifiers}

\* two units in a row, and a `?` in the middle of a literal pattern
TwoUnitPatterns ==
  {x \o y : x \in {<<"a">>, <<"a", "?">>, <<"a", "+">>, <<"a", "*">>, <<".">>},
            y \in {<<"b">>, <<".">>, <<"[", "^", "a", "]">>, <<"\\", "d">>}}
  \cup {<<"b", "a", "?", "b">>}

\* the patterns without anchors
AnchorFreePatterns ==
  LiteralPatterns \cup AtomPatterns \cup QuantifiedPatterns \cup TwoUnitPatterns

AnchoredPatterns ==
  {<<"^">> \o p : p \in AnchorFreePatterns} \cup
  {p \o <<"$">> : p \in AnchorFreePatterns} \cup
  {<<"^">> \o p \o <<"$">> : p \in AnchorFreePatterns}

\* top-level alternation of two literals, alone and followed by more
AlternationPatterns ==
  {<<x, "|", y>> : x \in LitChars, y \in LitChars} \cup
  {<<"a", "|", "b", "*">>, <<"a", "b", "|", "a">>}

\* what stands between the parentheses of a group
GroupBodies ==
  {<<"a">>, <<"a", "b">>, <<"a", "|", "b">>, <<"a", "+", "b">>,
   <<"a", "*", "b">>, <<"a", "b", "*">>}

\* what follows the closing parenthesis
GroupRests ==
  {<<>>, <<"*">>, <<"+">>, <<"b">>, <<"|", "b">>, <<"(", "b", "|", "a", ")">>}

GroupPatterns ==
  {<<"(">> \o g \o <<")">> \o r : g \in GroupBodies, r \in GroupRests} \cup
  {<<"^", "(">> \o g \o <<")", "*", "$">> : g \in GroupBodies}

\* malformed patterns: the parser panics on them
MalformedPatterns ==
  {<<"*">>, <<"|", "a">>, <<"a", "|">>, <<"[", "a">>, <<"(", "a">>, <<"a", "\\">>}

PatternSet ==
  {<<>>} \cup AnchorFreePatterns \cup AnchoredPatterns \cup AlternationPatterns
  \cup GroupPatterns \cup MalformedPatterns

\* the command lines: no argument, a first argument alone, or a first
\* argument and a pattern
ArgsSet ==
  {<<>>, <<"-E">>} \cup {<<"-E", p>> : p \in PatternSet}
  \cup {<<"-F", p>> : p \in AlternationPatterns}

\* the sub-patterns a Kleene star is applied to in SpecStar
StarAtoms == {Literal("a"), Literal("b"), AnyChar}
StarUnits ==
  StarAtoms \cup {OneOrMore(x) : x \in StarAtoms} \cup {KleeneStar(x) : x \in StarAtoms}
StarAsts ==
  StarUnits
  \cup {Sequence(<<x, y>>) : x \in StarUnits, y \in StarUnits}
  \cup {Or(x, y) : x \in StarUnits, y \in StarAtoms}
  \cup {Sequence(<<>>)}

StarWords == SeqsUpTo(LitChars, MaxWordLen)

\* ------------------------------------------------------------------------
\* The program as a state machine
\* ------------------------------------------------------------------------

VARIABLES
  args,            \* env::args() after the program name
  pc,              \* the position of main
  pattern,         \* Grep.pattern
  input,           \* Grep.input, the line read from stdin
  ast,             \* the Pattern returned by PatternParser::parse
  nfa,             \* NfaRunner.nfa
  current_states,  \* NfaRunner.current_states
  rest,            \* the characters NfaRunner::run has not consumed yet
  matched,         \* the value of grep.is_match()
  exit_code,       \* the exit status of the process, -1 while it runs
  new_states,      \* the local new_states of a running NfaRunner::closure
  steps            \* the calls of NfaRunner::next made by NfaRunner::run

vars == <<args, pc, pattern, input, ast, nfa, current_states, rest, matched, exit_code,
          new_states, steps>>

\* the exit status of a Rust panic
PanicExit == 101

NoAst == <<"NoAst">>
NoNfa == Nfa(0, <<>>, <<>>, FALSE)

Init ==
  /\ args \in ArgsSet
  /\ pc = "start"
  /\ pattern = <<>>
  /\ input = <<>>
  /\ ast = NoAst
  /\ nfa = NoNfa
  /\ current_states = <<>>
  /\ rest = <<>>
  /\ matched = FALSE
  /\ exit_code = -1
  /\ new_states = <<>>
  /\ steps = 0

\* main, lines 13-16: the first argument is not "-E"
MainUsage ==
  /\ pc = "start"
  /\ Len(args) >= 1
  /\ args[1] # "-E"
  /\ pc' = "exit"
  /\ exit_code' = 1
  /\ UNCHANGED <<args, pattern, input, ast, nfa, current_states, rest, matched>>
  /\ UNCHANGED <<new_states, steps>>

\* main, lines 13 and 18: nth(1).unwrap() or nth(2).unwrap() on a missing
\* argument panics
MainArgsPanic ==
  /\ pc = "start"
  /\ \/ Len(args) = 0
     \/ Len(args) = 1 /\ args[1] = "-E"
  /\ pc' = "exit"
  /\ exit_code' = PanicExit
  /\ UNCHANGED <<args, pattern, input, ast, nfa, current_states, rest, matched>>
  /\ UNCHANGED <<new_states, steps>>

\* main, lines 18-26: the pattern is the second argument and one line is
\* read from stdin
MainReadLine ==
  /\ pc = "start"
  /\ Len(args) >= 2
  /\ args[1] = "-E"
  /\ \E line \in InputSet : input' = line
  /\ pattern' = args[2]
  /\ pc' = "is_match"
  /\ UNCHANGED <<args, ast, nfa, current_states, rest, matched, exit_code>>
  /\ UNCHANGED <<new_states, steps>>

\* Grep::is_match, lines 41-43: parse the pattern; a parse panic ends the
\* process
Parse ==
  /\ pc = "is_match"
  /\ LET p == parse(pattern)
     IN  IF p = Panic
         THEN /\ pc' = "exit"
              /\ exit_code' = PanicExit
              /\ ast' = ast
         ELSE /\ pc' = "parsed"
              /\ exit_code' = exit_code
              /\ ast' = p
  /\ UNCHANGED <<args, pattern, input, nfa, current_states, rest, matched>>
  /\ UNCHANGED <<new_states, steps>>

\* Grep::is_match, lines 46-56: wrap the input and the pattern, build the
\* NFA and construct the runner
Compile ==
  /\ pc = "parsed"
  /\ LET built == NfaBuilder_of(modified_pattern(ast))
     IN  IF built.panic
         THEN /\ pc' = "exit"
              /\ exit_code' = PanicExit
              /\ UNCHANGED <<nfa, current_states, rest>>
         ELSE /\ pc' = "run"
              /\ exit_code' = exit_code
              /\ nfa' = built
              /\ current_states' = NfaRunner_new(built)
              /\ rest' = modified_input(input)
  /\ UNCHANGED <<args, pattern, input, ast, matched>>
  /\ UNCHANGED <<new_states, steps>>

\* NfaRunner::run, one iteration of its loop: runner.next(c)
RunnerNext ==
  /\ pc = "run"
  /\ rest # <<>>
  /\ current_states' = NfaRunner_next(nfa, current_states, Head(rest))
  /\ rest' = Tail(rest)
  /\ UNCHANGED <<args, pc, pattern, input, ast, nfa, matched, exit_code>>
  /\ steps' = steps + 1
  /\ UNCHANGED new_states

\* NfaRunner::run, after the loop: runner.is_match()
RunnerIsMatch ==
  /\ pc = "run"
  /\ rest = <<>>
  /\ matched' = NfaRunner_is_match(nfa, current_states)
  /\ pc' = "matched"
  /\ UNCHANGED <<args, pattern, input, ast, nfa, current_states, rest, exit_code>>
  /\ UNCHANGED <<new_states, steps>>

\* main, lines 27-31: the exit code of the match result
MainExit ==
  /\ pc = "matched"
  /\ exit_code' = IF matched THEN 0 ELSE 1
  /\ pc' = "exit"
  /\ UNCHANGED <<args, pattern, input, ast, nfa, current_states, rest, matched>>
  /\ UNCHANGED <<new_states, steps>>

Next ==
  \/ MainUsage
  \/ MainArgsPanic
  \/ MainReadLine
  \/ Parse
  \/ Compile
  \/ RunnerNext
  \/ RunnerIsMatch
  \/ MainExit

Spec == Init /\ [][Next]_vars

\* ------------------------------------------------------------------------
\* The builder's kleene_star on its own: an NFA is built for a sub-pattern,
\* starred, and run on a word without the driver's wrapping
\* ------------------------------------------------------------------------

InitStar ==
  /\ args = <<>>
  /\ pc = "star"
  /\ pattern = <<>>
  /\ input \in StarWords
  /\ ast \in StarAsts
  /\ nfa = NoNfa
  /\ current_states = <<>>
  /\ rest = <<>>
  /\ matched = FALSE
  /\ exit_code = -1
  /\ new_states = <<>>
  /\ steps = 0

\* NfaBuilder::of (KleeneStar arm): kleene_star(of(p)), then NfaRunner::new
StarBuild ==
  /\ pc = "star"
  /\ nfa' = kleene_star(NfaBuilder_of(ast))
  /\ current_states' = NfaRunner_new(nfa')
  /\ rest' = input
  /\ pc' = "run"
  /\ UNCHANGED <<args, pattern, input, ast, matched, exit_code>>
  /\ UNCHANGED <<new_states, steps>>

NextStar ==
  \/ StarBuild
  \/ RunnerNext
  \/ RunnerIsMatch

SpecStar == InitStar /\ [][NextStar]_vars

\* ------------------------------------------------------------------------
\* NfaRunner::run with the loop of NfaRunner::closure taken one iteration at
\* a time, on the NFA of a wrapped pattern; the first closure starts on an
\* arbitrary list of state ids (NfaRunner::new starts it on [start])
\* ------------------------------------------------------------------------

\* patterns whose NFA has epsilon cycles, nested quantifiers among them
ClosurePatterns ==
  {<<"a", "*">>, <<"b", "a", "+">>, <<"a", "?">>,
   <<"(", "a", "*", ")", "*">>, <<"(", "a", "+", ")", "+">>,
   <<"(", "a", "*", "b", ")", "*">>}

InitClosure ==
  /\ args = <<>>
  /\ pc = "closure"
  /\ pattern \in ClosurePatterns
  /\ input \in SeqsUpTo(LitChars, MaxRunLen)
  /\ ast = parse(pattern)
  /\ nfa = NfaBuilder_of(modified_pattern(ast))
  /\ current_states \in SeqsUpTo(DOMAIN nfa.states, MaxStartLen)
  /\ new_states = current_states
  /\ rest = input
  /\ matched = FALSE
  /\ exit_code = -1
  /\ steps = 0

\* NfaRunner::closure, lines 594-606: one iteration of the while loop
ClosureIter ==
  /\ pc = "closure"
  /\ Len(new_states) > 0
  /\ LET step == closure_step(nfa.states, new_states, current_states)
     IN  /\ new_states' = step.new_states
         /\ current_states' = step.current
  /\ UNCHANGED <<args, pc, pattern, input, ast, nfa, rest, matched, exit_code, steps>>

\* NfaRunner::closure, line 594: the loop ends when new_states is empty, and
\* the closed list is the runner's current_states (lines 528-532, 579-580)
ClosureReturn ==
  /\ pc = "closure"
  /\ Len(new_states) = 0
  /\ pc' = "run"
  /\ UNCHANGED <<args, pattern, input, ast, nfa, current_states, rest, matched,
                 exit_code, new_states, steps>>

\* NfaRunner::run calls next(c): lines 544-578 collect the targets of c, and
\* closure is entered on them with new_states = current.clone() (line 593)
NextBegin ==
  /\ pc = "run"
  /\ rest # <<>>
  /\ current_states' = next_targets(nfa, current_states, Head(rest))
  /\ new_states' = current_states'
  /\ rest' = Tail(rest)
  /\ steps' = steps + 1
  /\ pc' = "closure"
  /\ UNCHANGED <<args, pattern, input, ast, nfa, matched, exit_code>>

NextClosure ==
  \/ ClosureIter
  \/ ClosureReturn
  \/ NextBegin
  \/ RunnerIsMatch

\* the program is sequential: whatever step is enabled is taken
SpecClosure == InitClosure /\ [][NextClosure]_vars /\ WF_vars(NextClosure)

\* ------------------------------------------------------------------------
\* Reference notions used by the properties
\* ------------------------------------------------------------------------

\* p occurs in s as a contiguous substring
IsSubstring(p, s) ==
  \E i \in 0..(Len(s) - Len(p)) : SubSeq(s, i + 1, i + Len(p)) = p

\* the pattern was parsed to an AST
Parsed == pc \in {"parsed", "run", "matched"} \/ (pc = "exit" /\ ast # NoAst)

\* the NFA of the sub-pattern with text p, run on the whole of w with no
\* wrapping: p matches exactly w
FullMatch(p, w) == NfaRunner_run(NfaBuilder_of(parse(p)), w)

\* the AST with every `X?` node Or(Sequence([]), OneOrMore(X)) rewritten to
\* the zero-or-one encoding Or(Sequence([]), X)
RECURSIVE zero_or_one(_)
zero_or_one(p) ==
  LET tag == p[1]
  IN  CASE tag = "Or" ->
             IF p[2][1] = "Sequence" /\ Len(p[2][2]) = 0 /\ p[3][1] = "OneOrMore"
             THEN Or(p[2], zero_or_one(p[3][2]))
             ELSE Or(zero_or_one(p[2]), zero_or_one(p[3]))
        [] tag = "OneOrMore" -> OneOrMore(zero_or_one(p[2]))
        [] tag = "KleeneStar" -> KleeneStar(zero_or_one(p[2]))
        [] tag = "Sequence" -> Sequence([i \in 1..Len(p[2]) |-> zero_or_one(p[2][i])])
        [] OTHER -> p

\* w is a concatenation of zero or more words the NFA n accepts
RECURSIVE InStar(_, _)
InStar(n, w) ==
  \/ w = <<>>
  \/ \E k \in 1..Len(w) :
       /\ NfaRunner_run(n, SubSeq(w, 1, k))
       /\ InStar(n, SubSeq(w, k + 1, Len(w)))

\* ------------------------------------------------------------------------
\* Properties
\* ------------------------------------------------------------------------

\* C1: the ungrouped pattern a|b of two literals parses to exactly
\* Or(Literal a, Literal b), and it matches iff the input contains a or b.
C1_TopLevelAlternation ==
  \A a \in LitChars, b \in LitChars :
    pattern = <<a, "|", b>> =>
      /\ Parsed => ast = Or(Literal(a), Literal(b))
      /\ pc = "matched" => (matched <=> (a \in Range(input) \/ b \in Range(input)))

\* C2: for a pattern containing `?`, the match result equals the result with
\* every X? encoded as Or(Sequence([]), X), i.e. zero-or-one.
C2_OptionalIsZeroOrOne ==
  (pc = "matched" /\ "?" \in Range(pattern)) =>
    (matched <=> match_ast(zero_or_one(ast), input))

\* C3: for an anchor-free P, ^P matches iff P matches a prefix of the input,
\* P$ matches iff P matches a suffix, ^P$ matches iff P matches all of it.
C3_AnchorSoundness ==
  pc = "matched" =>
    \A P \in AnchorFreePatterns :
      /\ pattern = <<"^">> \o P =>
           (matched <=> \E k \in 0..Len(input) : FullMatch(P, SubSeq(input, 1, k)))
      /\ pattern = P \o <<"$">> =>
           (matched <=> \E k \in 0..Len(input) :
                          FullMatch(P, SubSeq(input, k + 1, Len(input))))
      /\ pattern = <<"^">> \o P \o <<"$">> =>
           (matched <=> FullMatch(P, input))

\* C4: on a one-character input c, [s] matches iff [^s] does not.
C4_ClassNegation ==
  (pc = "matched" /\ Len(input) = 1) =>
    \A s \in ClassSets :
      pattern = <<"[">> \o s \o <<"]">> =>
        (matched <=> ~Grep_is_match(<<"[", "^">> \o s \o <<"]">>, input))

\* C5: a non-empty pattern of ordinary literal characters matches iff it
\* occurs in the input as a contiguous substring.
C5_LiteralSearch ==
  (pc = "matched" /\ pattern # <<>> /\ Range(pattern) \subseteq LitChars) =>
    (matched <=> IsSubstring(pattern, input))

\* C5 witness: a literal pattern of two or more characters was found in an
\* input that does not begin with it.
C5_Witness ==
  /\ pc = "matched"
  /\ Len(pattern) >= 2
  /\ Range(pattern) \subseteq LitChars
  /\ matched
  /\ Len(input) > Len(pattern)
  /\ SubSeq(input, 1, Len(pattern)) # pattern

\* C6: for a single-atom P, P* matches the empty input and P+ does not.
C6_KleeneLaw ==
  (pc = "matched" /\ input = <<>>) =>
    \A P \in AtomPatterns :
      /\ pattern = P \o <<"*">> => matched
      /\ pattern = P \o <<"+">> => ~matched

\* C7: the process exits 0 on a match and 1 on no match, and a usage error
\* (first argument not -E) exits with a code that is neither 0 nor 1.
C7_ExitStatus ==
  pc = "exit" =>
    /\ (Len(args) >= 2 /\ args[1] = "-E" /\ ast # NoAst) =>
         exit_code = (IF matched THEN 0 ELSE 1)
    /\ (Len(args) >= 1 /\ args[1] # "-E") => exit_code \notin {0, 1}

\* C8: a group with no `|` between its parentheses parses to the pattern of
\* its contents whatever follows the `)`, and the parse finishes with an AST.
C8_GroupAlternationScope ==
  \A g \in GroupBodies, r \in GroupRests :
    (pattern = <<"(">> \o g \o <<")">> \o r /\ "|" \notin Range(g)
       /\ pc \notin {"start", "is_match"}) =>
      /\ ast # NoAst
      /\ LET first == next_pattern(PatternParser_new(pattern))
         IN  first.kind = "Some" /\ first.pat = parse(g)

\* C9: kleene_star(of(p)) accepts exactly the concatenations of zero or more
\* words accepted by of(p).
C9_KleeneStarCompound ==
  pc = "matched" => (matched <=> InStar(NfaBuilder_of(ast), input))

\* C10: after NfaRunner::new and after every next, current_states holds each
\* state id at most once, so it is no longer than the NFA has states.
C10_ActiveSetDuplicateFree ==
  pc = "run" =>
    /\ \A i, j \in 1..Len(current_states) :
         current_states[i] = current_states[j] => i = j
    /\ Len(current_states) <= Cardinality(DOMAIN nfa.states)

\* the sub-patterns of p, p included: what NfaBuilder::of is called on while
\* it builds p
RECURSIVE SubPatterns(_)
SubPatterns(p) ==
  LET tag == p[1]
  IN  {p} \cup
      CASE tag \in {"OneOrMore", "KleeneStar"} -> SubPatterns(p[2])
        [] tag = "Or" -> SubPatterns(p[2]) \cup SubPatterns(p[3])
        [] tag = "Sequence" -> UNION {SubPatterns(p[2][i]) : i \in 1..Len(p[2])}
        [] OTHER -> {}

\* the number of NfaState values the builder creates for p: two per atom,
\* per Or and per empty Sequence
RECURSIVE states_created(_)
RECURSIVE states_created_all(_)
states_created_all(ps) ==
  IF ps = <<>> THEN 0 ELSE states_created(Head(ps)) + states_created_all(Tail(ps))
states_created(p) ==
  LET tag == p[1]
  IN  CASE tag \in {"OneOrMore", "KleeneStar"} -> states_created(p[2])
        [] tag = "Or" -> 2 + states_created(p[2]) + states_created(p[3])
        [] tag = "Sequence" ->
             IF Len(p[2]) = 0 THEN 2 ELSE states_created_all(p[2])
        [] OTHER -> 2

\* start, every accept id and every transition target of n is a key of its
\* states table, the accept list is not empty and no unwrap or insert
\* panicked while n was built
ReferentiallyIntact(n) ==
  /\ ~n.panic
  /\ n.start \in DOMAIN n.states
  /\ Len(n.end) > 0
  /\ \A i \in 1..Len(n.end) : n.end[i] \in DOMAIN n.states
  /\ \A k \in DOMAIN n.states :
       \A j \in 1..Len(n.states[k]) : n.states[k][j][2] \in DOMAIN n.states

\* C11: the NFA of every sub-pattern the builder compiles is referentially
\* intact and holds every state that was created for it (none lost to an id
\* collision), and every id the simulator looks up is a key of the table.
C11_NfaReferentialIntegrity ==
  pc = "run" =>
    /\ ReferentiallyIntact(nfa)
    /\ \A i \in 1..Len(current_states) : current_states[i] \in DOMAIN nfa.states
    /\ Len(rest) = Len(input) + 2 =>
         \A sub \in SubPatterns(modified_pattern(ast)) :
           LET n == NfaBuilder_of(sub)
           IN  /\ ReferentiallyIntact(n)
               /\ Cardinality(DOMAIN n.states) = states_created(sub)

\* C11 witness: the runner works on an NFA merged from an Or (with an empty
\* Sequence branch and a OneOrMore) inside a Sequence.
C11_Witness ==
  /\ pc = "run"
  /\ ast[1] = "Sequence"
  /\ \E i \in 1..Len(ast[2]) : ast[2][i][1] = "Or"
  /\ Cardinality(DOMAIN nfa.states) >= 12
  /\ Len(rest) < Len(input) + 2

\* C12: every closure loop reaches an iteration with no new states and
\* returns, so NfaRunner::run finishes, after exactly one next per input
\* character.
C12_ClosureTerminates ==
  <>(pc = "matched" /\ steps = Len(input))

\* C12 witness: a run over a nested-quantifier NFA finished after one step
\* per character, its closures having gone round an epsilon cycle (a state
\* was reached again and appended a second time).
C12_Witness ==
  /\ pc = "matched"
  /\ pattern \in {<<"(", "a", "*", ")", "*">>, <<"(", "a", "+", ")", "+">>}
  /\ Len(input) >= 1
  /\ steps = Len(input)
  /\ \E i, j \in 1..Len(current_states) : i # j /\ current_states[i] = current_states[j]

====
